---------------------------- MODULE Spec2Model ----------------------------
(***************************************************************************)
(* DefaultQubitInterpreter (pennylane/devices/qubit/dq_interpreter.py):    *)
(* the evaluation of a plxpr program, equation by equation, by a stack of  *)
(* interpreter frames that share one Box (the stateref dict holding the    *)
(* quantum state and the PRNG key).                                        *)
(*                                                                         *)
(* The quantum state is the sequence of operations applied to the ground   *)
(* state; a PRNG key is the seed followed by the path of splits that       *)
(* derived it.                                                             *)
(***************************************************************************)
EXTENDS Integers, Sequences, FiniteSets, TLC

VARIABLES
    stack,      \* the interpreter frames: stack[1] is the instance, the others copy(self)
    heap,       \* the live Boxes (stateref dicts): Box id -> [state, key]
    nextId,     \* the id the next created Box gets
    shots,      \* self.shots (0: analytic)
    status,     \* how the last top-level invocation ended
    result,     \* the outputs of the last completed top-level invocation
    calls,      \* top-level invocations started on this instance
    created,    \* Boxes created since the current top-level invocation began
    draws,      \* the key splits of the current top-level invocation
    last,       \* the last control-flow handler invocation that returned or raised
    ctor,       \* the arguments the instance was constructed with
    prev,       \* the completed run of an earlier instance built with the same arguments
    access,     \* the caller's last use of the instance's state or key property
    capture,    \* whether program capture is enabled (pennylane.capture)
    qm          \* the QueuingManager: the recording queue and the last map_wires call

vars == <<stack, heap, nextId, shots, status, result, calls, created, draws, last,
          ctor, prev, access, capture, qm>>

-----------------------------------------------------------------------------
(* Bounds of the model *)

MaxCalls == 2
MaxBound == 3
MaxStep == 2
MaxOps == 3

-----------------------------------------------------------------------------
(* Values *)

NoBox == 0
NoKey == << >>
NoJaxpr == "None"
Seeds == {1, 2}
KeyArgs == {NoKey, <<1>>}

\* The shots argument as the sequence of its shot counts: None, 10 and (5, 10).
ShotsArgs == {<< >>, <<10>>, <<5, 10>>}

\* Shots(shots).total_shots, 0 standing for None (analytic).
RECURSIVE TotalShots(_)
TotalShots(s) == IF s = << >> THEN 0 ELSE Head(s) + TotalShots(Tail(s))

\* Shots(shots).has_partitioned_shots.
HasPartitionedShots(s) == Len(s) > 1

\* The measurement primitives that post-process mid-circuit measurements.
McmPrimitives == {"expval_mcm", "probs_mcm", "sample_mcm"}

\* A test that finds "mcm" in no name.
NameNeverHasMcm(name) == FALSE

\* "mcm" in eqn.primitive.name.
NameHasMcm(name) == name \in McmPrimitives

Range(s) == {s[k] : k \in 1..Len(s)}

\* jax.random.split(key, 2): two keys, each new and different from its sibling.
Split(key) == <<Append(key, 0), Append(key, 1)>>

\* create_initial_state: the ground state, to which no operation has been applied.
GroundState == << >>

\* apply_operation(op, state) for a plain operation.
ApplyOperation(op, state) == Append(state, op)

\* The computational-basis outcome apply_operation samples for a MidMeasureMP
\* from prng_key (python's False and True are the integers 0 and 1).
Outcome(state, prng_key) == (Len(state) + Len(prng_key) + prng_key[1]) % 2

\* apply_operation(mp, state, mid_measurements, prng_key): the projected state.
ApplyMidMeasure(wires, state, prng_key) ==
    Append(state, [prim |-> "MidMeasureMP", args |-> wires,
                   outcome |-> Outcome(state, prng_key)])

\* measure(measurement, state): the analytic statistic.
Measure(measurement, state) == [mp |-> measurement, of |-> state]

\* What the measurement functions raise: measure has no function for a
\* measurement of samples, measure_with_samples none for the state measurement.
MeasurementError(measurement, nshots) ==
    IF nshots = 0 /\ measurement \in {"sample", "counts"} THEN "NotImplementedError"
    ELSE IF nshots # 0 /\ measurement = "state" THEN "AttributeError"
    ELSE "none"

\* measure_with_samples([measurement], state, shots, prng_key)[0].
MeasureWithSamples(measurement, state, nshots, prng_key) ==
    [mp |-> measurement, of |-> state, shots |-> nshots, prng_key |-> prng_key]

-----------------------------------------------------------------------------
(* Programs *)

OpEqn(prim, ins) ==
    [kind |-> "op", prim |-> prim, invars |-> ins, outvars |-> << >>]
MeasureEqn(ins, out) ==
    [kind |-> "measure", prim |-> "measure", invars |-> ins, outvars |-> <<out>>]
BindEqn(prim, ins, out) ==
    [kind |-> "bind", prim |-> prim, invars |-> ins, outvars |-> <<out>>]
MpEqn(prim, out) ==
    [kind |-> "mp", prim |-> prim, invars |-> << >>, outvars |-> <<out>>]
ForEqn(ins, outs, body, cs, as) ==
    [kind |-> "for", prim |-> "for_loop", invars |-> ins, outvars |-> outs,
     jaxpr_body_fn |-> body, consts_slice |-> cs, args_slice |-> as]
WhileEqn(ins, outs, body, cnd, bs, cs, as) ==
    [kind |-> "while", prim |-> "while_loop", invars |-> ins, outvars |-> outs,
     jaxpr_body_fn |-> body, jaxpr_cond_fn |-> cnd,
     body_slice |-> bs, cond_slice |-> cs, args_slice |-> as]
AdjointEqn(ins, body) ==
    [kind |-> "adjoint", prim |-> "adjoint_transform", invars |-> ins,
     outvars |-> << >>, jaxpr |-> body, n_consts |-> 0]
CtrlEqn(ins, body) ==
    [kind |-> "ctrl", prim |-> "ctrl_transform", invars |-> ins, outvars |-> << >>,
     jaxpr |-> body, n_control |-> 1, n_consts |-> 0]
CondEqn(ins, outs, branches, css, as) ==
    [kind |-> "cond", prim |-> "cond", invars |-> ins, outvars |-> outs,
     jaxpr_branches |-> branches, consts_slices |-> css, args_slice |-> as]

MkJaxpr(cv, iv, eqns, ov) ==
    [constvars |-> cv, invars |-> iv, eqns |-> eqns, outvars |-> ov]

\* The branch bodies a cond equation may carry: b[k] says whether branch k is present.
UnitBranches(b) ==
    <<IF b[1] THEN "UnitA" ELSE NoJaxpr,
      IF b[2] THEN "UnitB" ELSE NoJaxpr,
      IF b[3] THEN "UnitC" ELSE NoJaxpr>>

Presence == [1..3 -> BOOLEAN]

CondUnitName(b) ==
    "CondUnit" \o (IF b[1] THEN "1" ELSE "0") \o (IF b[2] THEN "1" ELSE "0")
               \o (IF b[3] THEN "1" ELSE "0")

CondUnitProg(b) ==
    MkJaxpr(<< >>, <<"p1", "p2", "p3", "c", "x">>,
            <<OpEqn("H", <<"c">>),
              CondEqn(<<"p1", "p2", "p3", "c", "x">>, << >>, UnitBranches(b),
                      <<<<3, 4>>, <<3, 3>>, <<3, 4>>>>, <<4, 5>>),
              MpEqn("expval", "e")>>,
            <<"e">>)

FixedJaxprs ==
    [ ForProg |->
        MkJaxpr(<< >>, <<"start", "stop", "step", "c", "x">>,
                <<OpEqn("H", <<"c">>),
                  ForEqn(<<"start", "stop", "step", "c", "x">>, <<"r">>,
                         "ForBody", <<0, 1>>, <<1, 2>>),
                  MpEqn("expval", "e")>>,
                <<"r", "e">>),
      ForBody |->
        MkJaxpr(<<"c">>, <<"i", "x">>,
                <<OpEqn("RX", <<"x">>),
                  OpEqn("RY", <<"i">>),
                  MeasureEqn(<<"c">>, "m"),
                  BindEqn("add", <<"x", "c">>, "y")>>,
                <<"y">>),
      WhileProg |->
        MkJaxpr(<< >>, <<"b", "c", "x">>,
                <<WhileEqn(<<"c", "b", "x">>, <<"r">>, "WhileBody", "WhileCond",
                           <<0, 1>>, <<1, 2>>, <<2, 3>>),
                  MpEqn("probs", "e"),
                  MpEqn("expval", "f")>>,
                <<"r", "e", "f">>),
      WhileCond |->
        MkJaxpr(<<"b">>, <<"x">>,
                <<BindEqn("lt", <<"x", "b">>, "t")>>,
                <<"t">>),
      WhileBody |->
        MkJaxpr(<<"c">>, <<"x">>,
                <<OpEqn("RZ", <<"x">>),
                  MeasureEqn(<<"c">>, "m"),
                  BindEqn("add", <<"x", "c">>, "y")>>,
                <<"y">>),
      CondProg |->
        MkJaxpr(<< >>, <<"p1", "p2", "p3", "c", "x">>,
                <<CondEqn(<<"p1", "p2", "p3", "c", "x">>, <<"r">>,
                          <<"ValA", "ValB", "ValC">>,
                          <<<<3, 4>>, <<3, 3>>, <<3, 4>>>>, <<4, 5>>),
                  MpEqn("expval", "e")>>,
                <<"r", "e">>),
      ValA |->
        MkJaxpr(<<"c">>, <<"x">>,
                <<OpEqn("RX", <<"x">>), BindEqn("add", <<"x", "c">>, "y")>>,
                <<"y">>),
      ValB |->
        MkJaxpr(<< >>, <<"x">>,
                <<OpEqn("RY", <<"x">>), MeasureEqn(<<"x">>, "m")>>,
                <<"x">>),
      ValC |->
        MkJaxpr(<<"c">>, <<"x">>,
                <<OpEqn("RZ", <<"c">>)>>,
                <<"c">>),
      UnitA |->
        MkJaxpr(<<"c">>, <<"x">>, <<OpEqn("RX", <<"x">>)>>, << >>),
      UnitB |->
        MkJaxpr(<< >>, <<"x">>,
                <<OpEqn("RY", <<"x">>), MeasureEqn(<<"x">>, "m")>>, << >>),
      UnitC |->
        MkJaxpr(<<"c">>, <<"x">>, <<OpEqn("RZ", <<"c">>)>>, << >>),
      NestProg |->
        MkJaxpr(<< >>, <<"start", "stop", "step", "c", "x">>,
                <<ForEqn(<<"start", "stop", "step", "c", "x">>, <<"r">>,
                         "NestBody", <<0, 1>>, <<1, 2>>),
                  MpEqn("expval", "e")>>,
                <<"r", "e">>),
      NestBody |->
        MkJaxpr(<<"c">>, <<"i", "x">>,
                <<MeasureEqn(<<"c">>, "m"),
                  CondEqn(<<"m", "i">>, << >>, <<"NestBranch">>,
                          <<<<1, 1>>>>, <<1, 2>>),
                  BindEqn("add", <<"x", "c">>, "y")>>,
                <<"y">>),
      NestBranch |->
        MkJaxpr(<< >>, <<"i">>,
                <<OpEqn("X", <<"i">>), MeasureEqn(<<"i">>, "m")>>,
                << >>),
      AdjointProg |->
        MkJaxpr(<< >>, <<"c", "x">>,
                <<OpEqn("H", <<"c">>),
                  MeasureEqn(<<"c">>, "m"),
                  AdjointEqn(<<"x">>, "UnitA"),
                  OpEqn("X", <<"c">>),
                  MpEqn("expval", "e")>>,
                <<"e">>),
      CtrlProg |->
        MkJaxpr(<< >>, <<"start", "stop", "step", "c", "x">>,
                <<OpEqn("H", <<"c">>),
                  ForEqn(<<"start", "stop", "step", "c", "x">>, <<"r">>,
                         "CtrlBody", <<0, 1>>, <<1, 2>>),
                  MpEqn("expval", "e")>>,
                <<"r", "e">>),
      CtrlBody |->
        MkJaxpr(<<"c">>, <<"i", "x">>,
                <<OpEqn("RX", <<"x">>),
                  CtrlEqn(<<"c", "x">>, "UnitA"),
                  OpEqn("RY", <<"i">>)>>,
                <<"x">>),
      McmProg |->
        MkJaxpr(<< >>, <<"c", "x">>,
                <<OpEqn("H", <<"c">>),
                  MeasureEqn(<<"c">>, "m"),
                  MpEqn("expval_mcm", "e"),
                  MpEqn("expval", "f")>>,
                <<"e", "f">>),
      SampleProg |->
        MkJaxpr(<< >>, <<"c", "x">>,
                <<OpEqn("H", <<"c">>),
                  MpEqn("sample", "s"),
                  MpEqn("state", "t"),
                  MpEqn("expval", "e")>>,
                <<"s", "t", "e">>) ]

CondUnitNames == {CondUnitName(b) : b \in Presence}

Jaxpr(name) ==
    IF name \in DOMAIN FixedJaxprs
    THEN FixedJaxprs[name]
    ELSE CondUnitProg(CHOOSE b \in Presence : CondUnitName(b) = name)

\* start, stop, step, the constant c and the initial carried argument x.
LoopArgs ==
    {<<a, b, s, 1, 1>> : a \in 0..MaxBound, b \in 0..MaxBound,
                         s \in (-MaxStep)..MaxStep}

NestArgs == {<<0, b, 1, 1, 1>> : b \in 0..MaxBound}

\* The programs a caller may hand to eval, each with its arguments.
Invocations ==
    {[jaxpr |-> "ForProg", args |-> a] : a \in LoopArgs}
    \cup {[jaxpr |-> "NestProg", args |-> a] : a \in NestArgs}
    \cup {[jaxpr |-> "WhileProg", args |-> <<b, 1, x>>] :
              b \in 0..MaxBound, x \in 0..MaxBound}
    \cup {[jaxpr |-> "CondProg", args |-> <<p1, p2, 1, 1, 0>>] :
              p1 \in 0..1, p2 \in 0..1}
    \cup {[jaxpr |-> n, args |-> <<p[1], p[2], p[3], 1, 0>>] :
              n \in CondUnitNames, p \in [1..3 -> 0..1]}
    \cup {[jaxpr |-> n, args |-> <<1, 0>>] : n \in {"AdjointProg", "McmProg", "SampleProg"}}
    \cup {[jaxpr |-> "CtrlProg", args |-> <<0, 2, 1, 1, 0>>]}

\* The programs handed to eval on an instance that has been used before.
Reinvocations ==
    {[jaxpr |-> "WhileProg", args |-> <<2, 1, 0>>],
     [jaxpr |-> "ForProg", args |-> <<0, 2, 1, 1, 1>>],
     [jaxpr |-> "ForProg", args |-> <<0, 1, 0, 1, 1>>],
     [jaxpr |-> "NestProg", args |-> <<0, 2, 1, 1, 1>>],
     [jaxpr |-> "CondProg", args |-> <<0, 1, 1, 1, 0>>],
     [jaxpr |-> "AdjointProg", args |-> <<1, 0>>],
     [jaxpr |-> "CtrlProg", args |-> <<0, 2, 1, 1, 0>>],
     [jaxpr |-> "McmProg", args |-> <<1, 0>>],
     [jaxpr |-> "SampleProg", args |-> <<1, 0>>]}

-----------------------------------------------------------------------------
(* Frames *)

NoEnv == << >>

\* What the state property reads when there is no Box (None).
NoState == <<[prim |-> "None", args |-> << >>]>>

NoH == [kind |-> "none", invals |-> << >>, res |-> << >>, rest |-> << >>,
        log |-> << >>, box0 |-> << >>, ref |-> NoBox]

NoLast == [eqn |-> [kind |-> "none"], invals |-> << >>, res |-> << >>,
           log |-> << >>, box0 |-> << >>, box1 |-> << >>, ref |-> NoBox,
           raised |-> "none"]

NoResult == [jaxpr |-> NoJaxpr, args |-> << >>, outs |-> << >>]

NoAccess == [op |-> "none", nobox |-> FALSE, state |-> << >>, key |-> << >>,
             raised |-> "none", stored |-> FALSE]

\* map_wires has not been called.
NoCall == [done |-> FALSE, input |-> 0, wire_map |-> << >>, queue |-> FALSE,
           replace |-> FALSE, recording |-> FALSE, before |-> << >>,
           after |-> << >>, objs |-> << >>, new_op |-> 0]

\* No queue is recording, no operator has been made, map_wires has not been called.
NoQm == [recording |-> FALSE, queue |-> << >>, objs |-> << >>, call |-> NoCall]

NoPrev == [set |-> FALSE, jaxpr |-> NoJaxpr, args |-> << >>, outs |-> << >>,
           draws |-> << >>, final_key |-> NoKey, final_state |-> << >>,
           status |-> "new"]

\* A constructor that draws its key from numpy's generator whatever key is given.
InitialKeyFromEntropy(key, entropy) == <<entropy>>

\* __init__: "if key is None: key = jax.random.PRNGKey(np.random.randint(100000))".
InitialKey(key, entropy) == IF key = NoKey THEN <<entropy>> ELSE key

\* The instance as __init__ leaves it: no Box, no evaluation running.
NewInterpreter(key) ==
    [stateref |-> NoBox, initial_key |-> key, jaxpr |-> "idle", pc |-> 0,
     env |-> NoEnv, h |-> NoH]

top == stack[Len(stack)]
Idle == Len(stack) = 1 /\ stack[1].jaxpr = "idle"
Running == ~Idle
EqnOf(f) == Jaxpr(f.jaxpr).eqns[f.pc]
AtEqn == Running /\ top.pc <= Len(Jaxpr(top.jaxpr).eqns)
AtEnd == Running /\ top.pc > Len(Jaxpr(top.jaxpr).eqns)
eqn == EqnOf(top)

\* The state property: self.stateref["state"] if self.stateref else None.
State(f, hp) == IF f.stateref # NoBox THEN hp[f.stateref].state ELSE NoState

\* The key property: self.stateref["key"] if self.stateref else self.initial_key.
Key(f, hp) == IF f.stateref # NoBox THEN hp[f.stateref].key ELSE f.initial_key

\* setup: a Box is created only when the frame has none.
Setup(f, hp, id) ==
    IF f.stateref = NoBox
    THEN [ref |-> id, made |-> 1,
          heap |-> hp @@ (id :> [state |-> GroundState, key |-> f.initial_key])]
    ELSE [ref |-> f.stateref, made |-> 0, heap |-> hp]

\* cleanup: the key is kept as initial_key and the Box is detached from the frame.
Cleanup(f, hp) ==
    [f |-> [f EXCEPT !.initial_key = Key(f, hp), !.stateref = NoBox], heap |-> hp]

\* A Box no frame refers to any more is gone.
Live(stk) == {stk[k].stateref : k \in 1..Len(stk)} \ {NoBox}
Collect(hp, stk) == [id \in (DOMAIN hp) \cap Live(stk) |-> hp[id]]

ReadAll(env, vs) == [k \in 1..Len(vs) |-> env[vs[k]]]

Bind(env, vs, vals) ==
    [v \in (DOMAIN env) \cup Range(vs) |->
        IF v \in Range(vs) THEN vals[CHOOSE k \in 1..Len(vs) : vs[k] = v]
        ELSE env[v]]

\* An eval that binds the arguments into the environment the frame came with.
EvalEnterKeepsEnv(f, hp, id, name, consts, args) ==
    LET su == Setup(f, hp, id)
        j == Jaxpr(name)
    IN [stateref |-> su.ref, initial_key |-> f.initial_key, jaxpr |-> name,
        pc |-> 1, env |-> Bind(f.env, j.invars \o j.constvars, args \o consts),
        h |-> NoH]

\* eval, on entry: the environment holds the arguments and the constants only,
\* and setup has run.
EvalEnter(f, hp, id, name, consts, args) ==
    LET su == Setup(f, hp, id)
        j == Jaxpr(name)
    IN [stateref |-> su.ref, initial_key |-> f.initial_key, jaxpr |-> name,
        pc |-> 1, env |-> Bind(NoEnv, j.invars \o j.constvars, args \o consts),
        h |-> NoH]

\* A copy that leaves the Box behind.
CopyWithoutBox(f) == [stateref |-> NoBox, initial_key |-> f.initial_key, env |-> f.env]

\* copy(self): a new interpreter object whose attributes are those of self, the
\* reference to the Box among them.
Copy(f) == [stateref |-> f.stateref, initial_key |-> f.initial_key, env |-> f.env]

\* eval, on exit: the values of the program's outvars.
EvalOuts(f) == ReadAll(f.env, Jaxpr(f.jaxpr).outvars)

\* A python slice [lo:hi] of a tuple.
Slice(s, sl) == SubSeq(s, sl[1] + 1, sl[2])

\* eval binds an equation's outvals to its outvars and goes to the next equation.
Bound(f, outvals) ==
    [f EXCEPT !.env = Bind(f.env, EqnOf(f).outvars, outvals), !.pc = f.pc + 1,
              !.h = NoH]

\* An exception leaves eval: no frame catches it and no cleanup runs.
Raised(stk) ==
    <<[stk[1] EXCEPT !.jaxpr = "idle", !.pc = 0, !.env = NoEnv, !.h = NoH]>>

-----------------------------------------------------------------------------
(* Construction and the top-level invocation *)

\* __init__ raises NotImplementedError for partitioned shots: the object has its
\* num_wires and shots only, and the caller gets no instance.
Init ==
    \E k \in KeyArgs, s \in ShotsArgs, r \in Seeds :
        /\ ctor = [key |-> k, shots |-> s]
        /\ shots = TotalShots(s)
        /\ IF HasPartitionedShots(s)
           THEN /\ stack = <<NewInterpreter(NoKey)>>
                /\ status = "NotImplementedError"
           ELSE /\ stack = <<NewInterpreter(InitialKey(k, r))>>
                /\ status = "new"
        /\ heap = << >>
        /\ nextId = 1
        /\ access = NoAccess
        /\ capture \in BOOLEAN
        /\ qm = NoQm
        /\ result = NoResult
        /\ calls = 0
        /\ created = 0
        /\ draws = << >>
        /\ last = NoLast
        /\ prev = NoPrev

\* The caller holds an instance: the constructor returned.
Constructed == ~HasPartitionedShots(ctor.shots)

\* dq.eval(jaxpr, consts, *args) on the instance: setup, then the arguments bound.
Call ==
    /\ Idle
    /\ Constructed
    /\ calls < MaxCalls
    /\ \E inv \in (IF calls = 0 THEN Invocations ELSE Reinvocations) :
        /\ prev.set => (calls = 0 /\ inv.jaxpr = prev.jaxpr /\ inv.args = prev.args)
        /\ LET su == Setup(stack[1], heap, nextId)
           IN /\ stack' = <<EvalEnter(stack[1], heap, nextId, inv.jaxpr, << >>, inv.args)>>
              /\ heap' = su.heap
              /\ nextId' = nextId + su.made
              /\ created' = su.made
        /\ result' = [jaxpr |-> inv.jaxpr, args |-> inv.args, outs |-> << >>]
    /\ calls' = calls + 1
    /\ status' = "running"
    /\ draws' = << >>
    /\ last' = NoLast
    /\ access' = NoAccess
    /\ UNCHANGED <<shots, ctor, prev, capture, qm>>

\* The top-level eval ends: cleanup, then the outvars are read.
Return ==
    /\ AtEnd
    /\ Len(stack) = 1
    /\ LET cl == Cleanup(top, heap)
       IN /\ stack' = <<[cl.f EXCEPT !.jaxpr = "idle", !.pc = 0, !.env = NoEnv]>>
          /\ heap' = Collect(cl.heap, stack')
    /\ result' = [result EXCEPT !.outs = EvalOuts(top)]
    /\ status' = "ok"
    /\ UNCHANGED <<nextId, shots, calls, created, draws, last, ctor, prev, access, capture, qm>>

-----------------------------------------------------------------------------
(* Equations that are not control flow *)

invals == ReadAll(top.env, eqn.invars)

\* A setter that stores without looking for the Box.
SetterNeverRaises(f) == FALSE

\* The state and key setters: "if self.stateref is None: raise AttributeError".
SetterRaises(f) == f.stateref = NoBox

\* The Box after the state setter stored value in it.
SetState(f, hp, value) == [hp EXCEPT ![f.stateref].state = value]

\* The Box after the key setter stored value in it.
SetKey(f, hp, value) == [hp EXCEPT ![f.stateref].key = value]

\* An interpret_operation that advances the key as well.
InterpretOperationAndKey(f, hp, op) ==
    SetKey(f, SetState(f, hp, ApplyOperation(op, State(f, hp))), Split(Key(f, hp))[1])

\* interpret_operation: self.state = apply_operation(op, self.state).
InterpretOperationBox(f, hp, op) ==
    SetState(f, hp, ApplyOperation(op, State(f, hp)))

InterpretOperation ==
    /\ AtEqn
    /\ eqn.kind = "op"
    /\ heap' = InterpretOperationBox(top, heap, [prim |-> eqn.prim, args |-> invals])
    /\ stack' = [stack EXCEPT ![Len(stack)] = Bound(top, << >>)]
    /\ UNCHANGED <<nextId, shots, status, result, calls, created, draws, last, ctor, prev, access, capture, qm>>

\* A split whose first key is dropped: the Box keeps its key.
MeasureKeysNotAdvanced(key) == [key |-> key, new_key |-> Split(key)[2]]

\* measure_prim: "self.key, new_key = jax.random.split(self.key, 2)".
MeasureKeys(key) == [key |-> Split(key)[1], new_key |-> Split(key)[2]]

\* measure_prim: the key is split, the state is projected with new_key and the
\* outcome mcms[mp] is returned.
MeasurePrim ==
    /\ AtEqn
    /\ eqn.kind = "measure"
    /\ LET ks == MeasureKeys(Key(top, heap))
           before == State(top, heap)
           mcm == Outcome(before, ks.new_key)
       IN /\ heap' = SetState(top, SetKey(top, heap, ks.key),
                              ApplyMidMeasure(invals, before, ks.new_key))
          /\ stack' = [stack EXCEPT ![Len(stack)] = Bound(top, <<mcm>>)]
          /\ draws' = Append(draws, [by |-> "measure", key |-> ks.key,
                                     new_key |-> ks.new_key, old |-> Key(top, heap),
                                     mcm |-> mcm])
    /\ UNCHANGED <<nextId, shots, status, result, calls, created, last, ctor, prev, access, capture, qm>>

\* eqn.primitive.bind(*invals) for the classical primitives of the programs.
BindPrim(prim, ins) ==
    CASE prim = "add" -> ins[1] + ins[2]
      [] prim = "lt" -> IF ins[1] < ins[2] THEN 1 ELSE 0

ClassicalEqn ==
    /\ AtEqn
    /\ eqn.kind = "bind"
    /\ stack' = [stack EXCEPT ![Len(stack)] = Bound(top, <<BindPrim(eqn.prim, invals)>>)]
    /\ UNCHANGED <<heap, nextId, shots, status, result, calls, created, draws, last,
                   ctor, prev, access, capture, qm>>

\* A terminal measurement that splits the key whatever the shots are.
MeasurementKeysAlwaysSplit(nshots, key) ==
    [key |-> Split(key)[1], new_key |-> Split(key)[2], split |-> TRUE]

\* A terminal measurement that samples with a key split off the Box's key and
\* leaves the Box's key as it is.
MeasurementKeysNotStored(nshots, key) ==
    IF nshots # 0
    THEN [key |-> key, new_key |-> Split(key)[2], split |-> TRUE]
    ELSE [key |-> key, new_key |-> NoKey, split |-> FALSE]

\* interpret_measurement: with shots the key is split and new_key goes to the
\* sampler; without shots the key is left alone.
MeasurementKeys(nshots, key) ==
    IF nshots # 0
    THEN [key |-> Split(key)[1], new_key |-> Split(key)[2], split |-> TRUE]
    ELSE [key |-> key, new_key |-> NoKey, split |-> FALSE]

\* An exception raised by the handler of the equation the top frame is at.
Abort(err) ==
    /\ stack' = Raised(stack)
    /\ status' = err
    /\ UNCHANGED <<heap, nextId, shots, result, calls, created, draws, last, ctor, prev, access, capture, qm>>

\* interpret_measurement_eqn: a measurement of mid-circuit measurements is
\* rejected before the measurement is built.
InterpretMeasurementEqn ==
    /\ AtEqn
    /\ eqn.kind = "mp"
    /\ NameHasMcm(eqn.prim)
    /\ Abort("NotImplementedError")

\* adjoint_transform_prim: "raise NotImplementedError".
AdjointTransformPrim ==
    /\ AtEqn
    /\ eqn.kind = "adjoint"
    /\ Abort("NotImplementedError")

\* ctrl_transform_prim: "raise NotImplementedError".
CtrlTransformPrim ==
    /\ AtEqn
    /\ eqn.kind = "ctrl"
    /\ Abort("NotImplementedError")

\* An interpret_measurement whose enable() follows the computation without
\* "finally": an exception leaves capture as disable() set it.
CaptureOnExitUnguarded(raised) == ~raised

\* interpret_measurement: disable() first, and "finally: enable()" whether the
\* computation returned or raised.
CaptureOnExit(raised) == TRUE

\* interpret_measurement (reached through interpret_measurement_eqn when the
\* primitive's name has no "mcm"): capture is disabled, the statistic is
\* computed, capture is enabled; an exception of the computation leaves eval.
InterpretMeasurement ==
    /\ AtEqn
    /\ eqn.kind = "mp"
    /\ ~NameHasMcm(eqn.prim)
    /\ LET ks == MeasurementKeys(shots, Key(top, heap))
           output == IF ks.split
                     THEN MeasureWithSamples(eqn.prim, State(top, heap), shots, ks.new_key)
                     ELSE Measure(eqn.prim, State(top, heap))
           err == MeasurementError(eqn.prim, shots)
       IN /\ heap' = IF ks.split THEN SetKey(top, heap, ks.key) ELSE heap
          /\ draws' = IF ks.split
                      THEN Append(draws, [by |-> "mp", key |-> ks.key,
                                          new_key |-> ks.new_key, old |-> Key(top, heap),
                                          mcm |-> -1])
                      ELSE draws
          /\ capture' = CaptureOnExit(err # "none")
          /\ IF err # "none"
             THEN /\ stack' = Raised(stack)
                  /\ status' = err
             ELSE /\ stack' = [stack EXCEPT ![Len(stack)] = Bound(top, <<output>>)]
                  /\ status' = status
    /\ UNCHANGED <<nextId, shots, result, calls, created, last, ctor, prev, access, qm>>

-----------------------------------------------------------------------------
(* Control flow: what the handlers share *)

parent == stack[Len(stack) - 1]
below == SubSeq(stack, 1, Len(stack) - 1)
ChildDone == AtEnd /\ Len(stack) > 1

\* What a handler notes of one sub-program it evaluates.
Entry(what, child, consts, args, hp) ==
    [what |-> what, jaxpr |-> child.jaxpr, consts |-> consts, args |-> args,
     ref |-> child.stateref, env0 |-> child.env, boxIn |-> hp[child.stateref],
     done |-> FALSE, outs |-> << >>, boxOut |-> hp[child.stateref]]

\* The note of the sub-program that has just returned, completed.
Close(h, child, hp) ==
    LET open == h.log[Len(h.log)]
    IN [h EXCEPT !.log[Len(h.log)] =
           [open EXCEPT !.done = TRUE, !.outs = EvalOuts(child),
                        !.boxOut = hp[open.ref]]]

\* copy(self).eval(name, consts, *args) begins, called by the handler of the
\* equation that frame base[Len(base)] is at.
Spawn(base, hp, h, what, name, consts, args) ==
    LET su == Setup(Copy(base[Len(base)]), hp, nextId)
        child == EvalEnter(Copy(base[Len(base)]), hp, nextId, name, consts, args)
    IN /\ stack' = Append([base EXCEPT ![Len(base)].h =
                              [h EXCEPT !.log = Append(h.log,
                                  Entry(what, child, consts, args, su.heap))]],
                          child)
       /\ heap' = su.heap
       /\ nextId' = nextId + su.made
       /\ created' = created + su.made
       /\ last' = last
       /\ status' = status

\* The handler returns outvals and eval binds them to the equation's outvars.
HandlerReturn(base, hp, h, outvals) ==
    /\ stack' = [base EXCEPT ![Len(base)] = Bound(base[Len(base)], outvals)]
    /\ last' = [eqn |-> EqnOf(base[Len(base)]), invals |-> h.invals, res |-> outvals,
                log |-> h.log, box0 |-> h.box0,
                box1 |-> hp[base[Len(base)].stateref], ref |-> h.ref,
                raised |-> "none"]
    /\ heap' = hp
    /\ UNCHANGED <<nextId, created, status>>

\* The handler raises: the exception ends the top-level invocation.
HandlerRaise(base, hp, h, err) ==
    /\ stack' = Raised(base)
    /\ last' = [eqn |-> EqnOf(base[Len(base)]), invals |-> h.invals, res |-> << >>,
                log |-> h.log, box0 |-> h.box0,
                box1 |-> hp[base[Len(base)].stateref], ref |-> h.ref,
                raised |-> err]
    /\ status' = err
    /\ heap' = hp
    /\ UNCHANGED <<nextId, created>>

NewH(kind, ins, res, rest, hp) ==
    [kind |-> kind, invals |-> ins, res |-> res, rest |-> rest, log |-> << >>,
     box0 |-> hp[top.stateref], ref |-> top.stateref]

-----------------------------------------------------------------------------
(* for_loop_prim *)

\* A range that takes stop itself as its last value.
RECURSIVE PyRangeInclusive(_, _, _)
PyRangeInclusive(start, stop, step) ==
    IF (step > 0 /\ start <= stop) \/ (step < 0 /\ start >= stop)
    THEN <<start>> \o PyRangeInclusive(start + step, stop, step)
    ELSE << >>

\* A loop that tests its bound only after the first pass.
RECURSIVE PyRangeTestedLate(_, _, _)
PyRangeTestedLate(start, stop, step) ==
    <<start>> \o (IF (step > 0 /\ start + step < stop) \/ (step < 0 /\ start + step > stop)
                  THEN PyRangeTestedLate(start + step, stop, step)
                  ELSE << >>)

\* range(start, stop, step) for a step that is not zero.
RECURSIVE PyRange(_, _, _)
PyRange(start, stop, step) ==
    IF (step > 0 /\ start < stop) \/ (step < 0 /\ start > stop)
    THEN <<start>> \o PyRange(start + step, stop, step)
    ELSE << >>

\* A range that takes a step of zero for an empty range.
RangeNeverRaises(start, stop, step) == FALSE

\* range raises ValueError("range() arg 3 must not be zero").
RangeRaises(start, stop, step) == step = 0

\* consts = invals[consts_slice], of the invals after start, stop and step.
ForConsts(e, ins) == Slice(SubSeq(ins, 4, Len(ins)), e.consts_slice)

\* init_state = invals[args_slice].
ForInit(e, ins) == Slice(SubSeq(ins, 4, Len(ins)), e.args_slice)

\* The arguments of eval(jaxpr_body_fn, consts, i, *res).
ForBodyArgs(i, res) == <<i>> \o res

\* "for i in range(...): res = copy(self).eval(...)", from the head of the loop;
\* "return res" when the range is exhausted.
ForStep(base, hp, h) ==
    LET e == EqnOf(base[Len(base)])
    IN IF h.rest = << >>
       THEN HandlerReturn(base, hp, h, h.res)
       ELSE Spawn(base, hp, [h EXCEPT !.rest = Tail(h.rest)], "body",
                  e.jaxpr_body_fn, ForConsts(e, h.invals),
                  ForBodyArgs(Head(h.rest), h.res))

\* The handler is called: up to the first body's eval, or to its return.
ForLoop ==
    /\ AtEqn
    /\ eqn.kind = "for"
    /\ IF RangeRaises(invals[1], invals[2], invals[3])
       THEN HandlerRaise(stack, heap, NewH("for", invals, << >>, << >>, heap),
                         "ValueError")
       ELSE ForStep(stack, heap,
                    NewH("for", invals, ForInit(eqn, invals),
                         PyRange(invals[1], invals[2], invals[3]), heap))
    /\ UNCHANGED <<shots, result, calls, draws, ctor, prev, access, capture, qm>>

\* A body's eval ends (cleanup of the copy, outvars read): res is its outputs, and
\* the loop goes on.
ForLoopNext ==
    /\ ChildDone
    /\ parent.h.kind = "for"
    /\ LET hp == Cleanup(top, heap).heap
           h == Close(parent.h, top, hp)
       IN ForStep(below, hp, [h EXCEPT !.res = EvalOuts(top)])
    /\ UNCHANGED <<shots, result, calls, draws, ctor, prev, access, capture, qm>>

-----------------------------------------------------------------------------
(* while_loop_prim *)

\* The truth value python's while and if give a value.
Truthy(v) == v # 0

\* A test that takes the loop's exit for its entry.
WhileTestNegated(outs) == ~Truthy(outs[1])

\* "while copy(self).eval(jaxpr_cond_fn, consts_cond, *fn_res)[0]".
WhileTest(outs) == Truthy(outs[1])

\* The handler is called: up to the first eval of the condition.
WhileLoop ==
    /\ AtEqn
    /\ eqn.kind = "while"
    /\ Spawn(stack, heap,
             NewH("while", invals, Slice(invals, eqn.args_slice), << >>, heap),
             "cond", eqn.jaxpr_cond_fn, Slice(invals, eqn.cond_slice),
             Slice(invals, eqn.args_slice))
    /\ UNCHANGED <<shots, result, calls, draws, ctor, prev, access, capture, qm>>

\* The condition's eval ends: the body is evaluated if it is true, fn_res is
\* returned if not.
WhileLoopTest ==
    /\ ChildDone
    /\ parent.h.kind = "while"
    /\ parent.h.log[Len(parent.h.log)].what = "cond"
    /\ LET hp == Cleanup(top, heap).heap
           h == Close(parent.h, top, hp)
           e == EqnOf(parent)
       IN IF WhileTest(EvalOuts(top))
          THEN Spawn(below, hp, h, "body", e.jaxpr_body_fn,
                     Slice(h.invals, e.body_slice), h.res)
          ELSE HandlerReturn(below, hp, h, h.res)
    /\ UNCHANGED <<shots, result, calls, draws, ctor, prev, access, capture, qm>>

\* The body's eval ends: fn_res is its outputs, and the condition is evaluated again.
WhileLoopBody ==
    /\ ChildDone
    /\ parent.h.kind = "while"
    /\ parent.h.log[Len(parent.h.log)].what = "body"
    /\ LET hp == Cleanup(top, heap).heap
           h == [Close(parent.h, top, hp) EXCEPT !.res = EvalOuts(top)]
           e == EqnOf(parent)
       IN Spawn(below, hp, h, "cond", e.jaxpr_cond_fn,
                Slice(h.invals, e.cond_slice), h.res)
    /\ UNCHANGED <<shots, result, calls, draws, ctor, prev, access, capture, qm>>

-----------------------------------------------------------------------------
(* cond_prim *)

Min(a, b) == IF a < b THEN a ELSE b

\* "for pred, jaxpr, const_slice in zip(...): if pred and jaxpr is not None: return":
\* the index of the tuple whose body is evaluated, 0 when the loop falls through.
RECURSIVE FirstFrom(_, _, _, _)
FirstFrom(k, n, conditions, branches) ==
    IF k > n THEN 0
    ELSE IF Truthy(conditions[k]) /\ branches[k] # NoJaxpr THEN k
    ELSE FirstFrom(k + 1, n, conditions, branches)

\* The last tuple whose predicate is true and whose body is present.
RECURSIVE LastFrom(_, _, _)
LastFrom(k, conditions, branches) ==
    IF k = 0 THEN 0
    ELSE IF Truthy(conditions[k]) /\ branches[k] # NoJaxpr THEN k
    ELSE LastFrom(k - 1, conditions, branches)

SelectLastBranch(conditions, branches, slices) ==
    LastFrom(Min(Len(conditions), Min(Len(branches), Len(slices))), conditions, branches)

\* The last present body taken as the default when no tuple matches.
RECURSIVE LastPresent(_, _)
LastPresent(k, branches) ==
    IF k = 0 THEN 0
    ELSE IF branches[k] # NoJaxpr THEN k
    ELSE LastPresent(k - 1, branches)

SelectBranchOrDefault(conditions, branches, slices) ==
    LET n == Min(Len(conditions), Min(Len(branches), Len(slices)))
    IN IF FirstFrom(1, n, conditions, branches) # 0
       THEN FirstFrom(1, n, conditions, branches)
       ELSE LastPresent(n, branches)

SelectBranch(conditions, branches, slices) ==
    FirstFrom(1, Min(Len(conditions), Min(Len(branches), Len(slices))),
              conditions, branches)

\* The handler is called: up to the chosen branch's eval, or to "return ()".
CondPrim ==
    /\ AtEqn
    /\ eqn.kind = "cond"
    /\ LET n_branches == Len(eqn.jaxpr_branches)
           conditions == SubSeq(invals, 1, n_branches)
           args == Slice(invals, eqn.args_slice)
           k == SelectBranch(conditions, eqn.jaxpr_branches, eqn.consts_slices)
           h == NewH("cond", invals, << >>, << >>, heap)
       IN IF k = 0
          THEN HandlerReturn(stack, heap, h, << >>)
          ELSE Spawn(stack, heap, h, "branch", eqn.jaxpr_branches[k],
                     Slice(invals, eqn.consts_slices[k]), args)
    /\ UNCHANGED <<shots, result, calls, draws, ctor, prev, access, capture, qm>>

\* The branch's eval ends: its outputs are the handler's.
CondReturn ==
    /\ ChildDone
    /\ parent.h.kind = "cond"
    /\ LET hp == Cleanup(top, heap).heap
           h == Close(parent.h, top, hp)
       IN HandlerReturn(below, hp, h, EvalOuts(top))
    /\ UNCHANGED <<shots, result, calls, draws, ctor, prev, access, capture, qm>>

-----------------------------------------------------------------------------
(* The caller's use of the state and key properties between invocations *)

StateValues == {GroundState}
KeyValues == {<<2>>}

Accessed(op, st, k, raised, hp) ==
    [op |-> op, nobox |-> stack[1].stateref = NoBox, state |-> st, key |-> k,
     raised |-> raised, stored |-> hp # heap]

\* dq.state is read.
GetState ==
    /\ Idle
    /\ Constructed
    /\ access' = Accessed("get_state", State(stack[1], heap), << >>, "none", heap)
    /\ UNCHANGED <<stack, heap, nextId, shots, status, result, calls, created, draws,
                   last, ctor, prev, capture, qm>>

\* dq.key is read.
GetKey ==
    /\ Idle
    /\ Constructed
    /\ access' = Accessed("get_key", << >>, Key(stack[1], heap), "none", heap)
    /\ UNCHANGED <<stack, heap, nextId, shots, status, result, calls, created, draws,
                   last, ctor, prev, capture, qm>>

\* dq.state = value.
SetStateAttr ==
    /\ Idle
    /\ Constructed
    /\ \E value \in StateValues :
          IF SetterRaises(stack[1])
          THEN /\ access' = Accessed("set_state", << >>, << >>, "AttributeError", heap)
               /\ heap' = heap
          ELSE /\ access' = Accessed("set_state", value, << >>, "none",
                                     SetState(stack[1], heap, value))
               /\ heap' = SetState(stack[1], heap, value)
    /\ UNCHANGED <<stack, nextId, shots, status, result, calls, created, draws,
                   last, ctor, prev, capture, qm>>

\* dq.key = value.
SetKeyAttr ==
    /\ Idle
    /\ Constructed
    /\ \E value \in KeyValues :
          IF SetterRaises(stack[1])
          THEN /\ access' = Accessed("set_key", << >>, << >>, "AttributeError", heap)
               /\ heap' = heap
          ELSE /\ access' = Accessed("set_key", << >>, value, "none",
                                     SetKey(stack[1], heap, value))
               /\ heap' = SetKey(stack[1], heap, value)
    /\ UNCHANGED <<stack, nextId, shots, status, result, calls, created, draws,
                   last, ctor, prev, capture, qm>>

-----------------------------------------------------------------------------
(* map_wires (pennylane/ops/functions/map_wires.py) on an Operator or a       *)
(* MeasurementProcess. qm.objs are the operator objects made so far, an       *)
(* object being known by its index; qm.queue is the recording queue.          *)

OpWires == {<<0>>, <<0, 1>>}
WireMaps == {(0 :> 1), (0 :> 1) @@ (1 :> 0)}

\* "with AnnotatedQueue() as q:" is entered or left.
ToggleRecording ==
    /\ qm' = [qm EXCEPT !.recording = ~qm.recording,
                        !.queue = IF qm.recording THEN << >> ELSE qm.queue]
    /\ UNCHANGED <<stack, heap, nextId, shots, status, result, calls, created, draws,
                   last, ctor, prev, access, capture>>

\* An operator is constructed; while a queue is recording it queues itself.
NewOperator ==
    /\ Len(qm.objs) < MaxOps
    /\ \E w \in OpWires :
          qm' = [qm EXCEPT !.objs = Append(qm.objs, [wires |-> w]),
                           !.queue = IF qm.recording
                                     THEN Append(qm.queue, Len(qm.objs) + 1)
                                     ELSE qm.queue]
    /\ UNCHANGED <<stack, heap, nextId, shots, status, result, calls, created, draws,
                   last, ctor, prev, access, capture>>

\* input.map_wires(wire_map): the wires of the copy, "wire_map.get(w, w)".
MappedWires(wires, wire_map) ==
    [k \in 1..Len(wires) |->
        IF wires[k] \in DOMAIN wire_map THEN wire_map[wires[k]] ELSE wires[k]]

\* QueuingManager.remove(input): the queue without input, as it was if input
\* is not in it.
Remove(queue, obj) == SelectSeq(queue, LAMBDA o : o # obj)

\* "if replace: QueuingManager.remove(input)".
RemovesInput(queue, replace) == replace

\* "if queue: qml.apply(new_op)".
QueuesMapped(queue, replace) == queue

\* map_wires(input, wire_map, queue, replace) for an Operator or a
\* MeasurementProcess: the copy is made with recording stopped; when a queue
\* is recording the input is removed and the copy applied as asked.
MapWires ==
    /\ Len(qm.objs) < MaxOps
    /\ \E input \in 1..Len(qm.objs), wire_map \in WireMaps,
          queue \in BOOLEAN, replace \in BOOLEAN :
          LET new_op == Len(qm.objs) + 1
              objs == Append(qm.objs,
                             [wires |-> MappedWires(qm.objs[input].wires, wire_map)])
              removed == IF qm.recording /\ RemovesInput(queue, replace)
                         THEN Remove(qm.queue, input) ELSE qm.queue
              after == IF qm.recording /\ QueuesMapped(queue, replace)
                       THEN Append(removed, new_op) ELSE removed
          IN qm' = [qm EXCEPT
                      !.objs = objs,
                      !.queue = after,
                      !.call = [done |-> TRUE, input |-> input, wire_map |-> wire_map,
                                queue |-> queue, replace |-> replace,
                                recording |-> qm.recording, before |-> qm.queue,
                                after |-> after, objs |-> qm.objs, new_op |-> new_op]]
    /\ UNCHANGED <<stack, heap, nextId, shots, status, result, calls, created, draws,
                   last, ctor, prev, access, capture>>

-----------------------------------------------------------------------------
(* A second instance, for the comparison of two runs *)

\* Once the instance's first invocation has ended, another instance is constructed
\* with the same num_wires, shots and explicit key; it is given the same program
\* and arguments (see Call), and the first run is kept for the comparison.
Reconstruct ==
    /\ Idle
    /\ calls = 1
    /\ ~prev.set
    /\ ctor.key # NoKey
    /\ prev' = [set |-> TRUE, jaxpr |-> result.jaxpr, args |-> result.args,
                outs |-> result.outs, draws |-> draws,
                final_key |-> Key(stack[1], heap),
                final_state |-> State(stack[1], heap), status |-> status]
    /\ Constructed
    /\ \E r \in Seeds : stack' = <<NewInterpreter(InitialKey(ctor.key, r))>>
    /\ heap' = << >>
    /\ nextId' = 1
    /\ status' = "new"
    /\ result' = NoResult
    /\ calls' = 0
    /\ created' = 0
    /\ draws' = << >>
    /\ last' = NoLast
    /\ access' = NoAccess
    /\ UNCHANGED <<shots, ctor, capture, qm>>

-----------------------------------------------------------------------------
(* The specification *)

Next ==
    \/ Call
    \/ Return
    \/ InterpretOperation
    \/ MeasurePrim
    \/ ClassicalEqn
    \/ InterpretMeasurementEqn
    \/ InterpretMeasurement
    \/ AdjointTransformPrim
    \/ CtrlTransformPrim
    \/ ForLoop
    \/ ForLoopNext
    \/ WhileLoop
    \/ WhileLoopTest
    \/ WhileLoopBody
    \/ CondPrim
    \/ CondReturn

Spec == Init /\ [][Next]_vars

NextTwin ==
    \/ Next
    \/ Reconstruct

\* The instance's invocations, and after the first one those of a second
\* instance constructed like it.
SpecTwin == Init /\ [][NextTwin]_vars

NextAccess ==
    \/ Next
    \/ GetState
    \/ GetKey
    \/ SetStateAttr
    \/ SetKeyAttr

NextMapWires ==
    \/ ToggleRecording
    \/ NewOperator
    \/ MapWires

\* Operators are made and mapped, inside and outside a recording queue.
SpecMapWires == Init /\ [][NextMapWires]_vars

\* The instance's invocations, and between them the caller's reads and writes of
\* its state and key properties.
SpecAccess == Init /\ [][NextAccess]_vars

-----------------------------------------------------------------------------
(* Manual evaluation: the equations of a sub-program without control flow,    *)
(* applied one after the other to a Box and an environment by hand.           *)

RECURSIVE ManualFrom(_, _, _, _)
ManualFrom(j, pc, env, box) ==
    IF pc > Len(j.eqns) THEN [outs |-> ReadAll(env, j.outvars), box |-> box]
    ELSE LET e == j.eqns[pc]
             ins == ReadAll(env, e.invars)
         IN CASE e.kind = "op" ->
                   ManualFrom(j, pc + 1, env,
                              [box EXCEPT !.state =
                                  Append(box.state, [prim |-> e.prim, args |-> ins])])
              [] e.kind = "measure" ->
                   LET sample_key == Append(box.key, 1)
                       mcm == Outcome(box.state, sample_key)
                   IN ManualFrom(j, pc + 1, Bind(env, e.outvars, <<mcm>>),
                                 [state |-> ApplyMidMeasure(ins, box.state, sample_key),
                                  key |-> Append(box.key, 0)])
              [] e.kind = "bind" ->
                   ManualFrom(j, pc + 1,
                              Bind(env, e.outvars, <<BindPrim(e.prim, ins)>>), box)

StraightLine(j) == \A k \in 1..Len(j.eqns) : j.eqns[k].kind \in {"op", "measure", "bind"}

\* The outputs and the Box of one manual evaluation of sub-program name.
Manual(name, consts, args, box) ==
    LET j == Jaxpr(name)
    IN ManualFrom(j, 1, Bind(NoEnv, j.constvars \o j.invars, consts \o args), box)

\* What a handler's note says of a completed evaluation in a new child frame:
\* the environment held the constants and the arguments only, the Box was the
\* handler's own, and for a sub-program without control flow the outputs and the
\* Box are those of the manual evaluation.
ChildEvaluated(en, name, consts, args, boxIn, ref) ==
    LET j == Jaxpr(name)
    IN /\ en.jaxpr = name
       /\ en.consts = consts
       /\ en.args = args
       /\ DOMAIN en.env0 = Range(j.constvars) \cup Range(j.invars)
       /\ ReadAll(en.env0, j.constvars \o j.invars) = consts \o args
       /\ en.ref = ref
       /\ en.boxIn = boxIn
       /\ (en.done /\ StraightLine(j)) =>
             /\ en.outs = Manual(name, consts, args, boxIn).outs
             /\ en.boxOut = Manual(name, consts, args, boxIn).box

-----------------------------------------------------------------------------
(* Claims about for_loop_prim *)

\* The number of i in start, start+step, ... before stop (step not zero).
TripCount(start, stop, step) ==
    IF step > 0
    THEN (IF stop > start THEN (stop - start + step - 1) \div step ELSE 0)
    ELSE (IF start > stop THEN (start - stop - step - 1) \div (-step) ELSE 0)

ForReturned == last.eqn.kind = "for" /\ last.raised = "none"
ForStart == last.invals[1]
ForStop == last.invals[2]
ForStepArg == last.invals[3]
ForCarried(k) == IF k = 0 THEN ForInit(last.eqn, last.invals) ELSE last.log[k].outs
ForBoxAfter(k) == IF k = 0 THEN last.box0 ELSE last.log[k].boxOut

\* C1: a for_loop with a non-zero step evaluates the body once per i of
\* start, start+step, ... (stop exclusive), in that order, each time in a new
\* child frame on the handler's Box with inputs (consts, i, *carried); the
\* outputs of one body are the carried arguments of the next; the handler
\* returns the last outputs, and outputs and Box are those of as many manual
\* evaluations of the body, one after the other, on the same Box.
C1_ForLoopUnrolls ==
    (ForReturned /\ ForStepArg # 0) =>
        LET n == TripCount(ForStart, ForStop, ForStepArg)
        IN /\ Len(last.log) = n
           /\ \A k \in 1..n :
                 /\ last.log[k].what = "body"
                 /\ last.log[k].done
                 /\ ChildEvaluated(last.log[k], last.eqn.jaxpr_body_fn,
                                   ForConsts(last.eqn, last.invals),
                                   <<ForStart + (k - 1) * ForStepArg>> \o ForCarried(k - 1),
                                   ForBoxAfter(k - 1), last.ref)
           /\ last.res = ForCarried(n)
           /\ last.box1 = ForBoxAfter(n)

\* C1's case: the loop of start=0, stop=3, step=1 has returned after three bodies.
C1_Witness ==
    /\ ForReturned
    /\ <<ForStart, ForStop, ForStepArg>> = <<0, 3, 1>>
    /\ Len(last.log) = 3
    /\ last.log[3].boxOut.state # last.box0.state

\* C8: a for_loop whose range is empty evaluates no body, returns the initial
\* carried arguments and leaves the Box's state and key as they were.
C8_EmptyRangeNoOp ==
    (ForReturned /\ ForStepArg # 0
       /\ TripCount(ForStart, ForStop, ForStepArg) = 0) =>
        /\ last.log = << >>
        /\ last.res = ForInit(last.eqn, last.invals)
        /\ last.box1 = last.box0

\* C8's case: a loop with start = stop has returned.
C8_Witness ==
    /\ ForReturned
    /\ ForStepArg # 0
    /\ ForStart = ForStop
    /\ last.box0.state # GroundState

ForCalledWithStepZero == last.eqn.kind = "for" /\ ForStepArg = 0

\* C9 as claimed: a for_loop with step = 0 raises nothing, evaluates no body,
\* returns the initial carried arguments and leaves the Box unchanged.
C9_StepZeroIsNoOp ==
    ForCalledWithStepZero =>
        /\ last.raised = "none"
        /\ last.log = << >>
        /\ last.res = ForInit(last.eqn, last.invals)
        /\ last.box1 = last.box0

\* C9, amended: a for_loop with step = 0 raises ValueError (range's) before any
\* body is evaluated; it returns nothing, leaves the Box unchanged, and the
\* top-level invocation ends with that error.
C9_StepZeroRaises ==
    ForCalledWithStepZero =>
        /\ last.raised = "ValueError"
        /\ status = "ValueError"
        /\ Idle
        /\ last.log = << >>
        /\ last.res = << >>
        /\ last.box1 = last.box0
        /\ heap[stack[1].stateref] = last.box0

\* C9's case: a for_loop was called with step = 0 and start # stop.
C9_Witness ==
    /\ ForCalledWithStepZero
    /\ ForStart < ForStop
    /\ last.box0.state # GroundState

-----------------------------------------------------------------------------
(* Claims about while_loop_prim *)

\* The notes of the while_loop handlers that are running, and of the last one
\* that returned.
WhileRunning == {stack[k].h : k \in {i \in 1..Len(stack) : stack[i].h.kind = "while"}}
WhileReturned == last.eqn.kind = "while" /\ last.raised = "none"

\* The carried arguments when note k of a while_loop's log was taken.
WhileCarried(e, ins, log, k) ==
    IF k = 1 THEN Slice(ins, e.args_slice)
    ELSE IF log[k].what = "cond" THEN log[k - 1].outs
    ELSE log[k - 1].args

\* Conditions and bodies alternate, the condition first, each on the current
\* carried arguments; a body follows a true condition only.
WhileOrdered(e, ins, log, ref, box0) ==
    \A k \in 1..Len(log) :
        /\ log[k].what = (IF k % 2 = 1 THEN "cond" ELSE "body")
        /\ k < Len(log) => log[k].done
        /\ ChildEvaluated(log[k],
                          IF k % 2 = 1 THEN e.jaxpr_cond_fn ELSE e.jaxpr_body_fn,
                          IF k % 2 = 1 THEN Slice(ins, e.cond_slice)
                                       ELSE Slice(ins, e.body_slice),
                          WhileCarried(e, ins, log, k),
                          IF k = 1 THEN box0 ELSE log[k - 1].boxOut, ref)
        /\ (k % 2 = 0) => Truthy(log[k - 1].outs[1])
        /\ (k % 2 = 1 /\ log[k].done /\ ~Truthy(log[k].outs[1])) => k = Len(log)

\* C2: while_loop evaluates the condition before every iteration on the current
\* carried arguments; the body is evaluated once after each true condition and
\* never after a false one; at the first false condition the handler returns
\* the current carried arguments (the initial ones when no body ran).
C2_WhileLoopOrder ==
    /\ \A h \in WhileRunning :
          /\ h.log # << >>
          /\ ~h.log[Len(h.log)].done
          /\ WhileOrdered(EqnOf(CHOOSE f \in Range(stack) : f.h = h), h.invals, h.log,
                          h.ref, h.box0)
    /\ WhileReturned =>
          LET n == Len(last.log)
          IN /\ n % 2 = 1
             /\ last.log[n].done
             /\ ~Truthy(last.log[n].outs[1])
             /\ WhileOrdered(last.eqn, last.invals, last.log, last.ref, last.box0)
             /\ last.res = last.log[n].args
             /\ last.box1 = last.log[n].boxOut
             /\ n = 1 => /\ last.res = Slice(last.invals, last.eqn.args_slice)
                         /\ last.box1 = last.box0

\* C2's case: a while_loop has returned after two iterations.
C2_Witness ==
    /\ WhileReturned
    /\ Len(last.log) = 5
    /\ last.res # Slice(last.invals, last.eqn.args_slice)

\* The other case of C2: a while_loop whose condition was false at the first check.
C2_ZeroTrip ==
    /\ WhileReturned
    /\ Len(last.log) = 1

-----------------------------------------------------------------------------
(* Claims about cond_prim *)

CondRunning == {stack[k].h : k \in {i \in 1..Len(stack) : stack[i].h.kind = "cond"}}
CondReturned == last.eqn.kind = "cond" /\ last.raised = "none"

CondPreds(e, ins) == SubSeq(ins, 1, Len(e.jaxpr_branches))

\* The tuples whose predicate is true and whose body is present.
Matches(e, ins) ==
    {k \in 1..Len(e.jaxpr_branches) :
        CondPreds(e, ins)[k] # 0 /\ e.jaxpr_branches[k] # NoJaxpr}

\* The tuples whose predicate is true.
TruePreds(e, ins) == {k \in 1..Len(e.jaxpr_branches) : CondPreds(e, ins)[k] # 0}

Least(S) == CHOOSE k \in S : \A m \in S : k <= m

\* The one note of a cond handler is of the first matching tuple's body.
FirstMatchOnly(e, ins, log, box0, ref) ==
    /\ Len(log) = 1
    /\ Matches(e, ins) # {}
    /\ log[1].what = "branch"
    /\ LET k == Least(Matches(e, ins))
       IN ChildEvaluated(log[1], e.jaxpr_branches[k], Slice(ins, e.consts_slices[k]),
                         Slice(ins, e.args_slice), box0, ref)

\* C3: cond evaluates at most one branch body, the body of the first tuple whose
\* predicate is true and whose body is present, with inputs (that branch's
\* consts, *args), and returns its outputs; the Box is as that body left it.
C3_FirstTrueWins ==
    /\ \A h \in CondRunning :
          FirstMatchOnly(EqnOf(CHOOSE f \in Range(stack) : f.h = h), h.invals, h.log,
                         h.box0, h.ref)
    /\ CondReturned =>
          /\ Len(last.log) <= 1
          /\ Matches(last.eqn, last.invals) # {} =>
                /\ FirstMatchOnly(last.eqn, last.invals, last.log, last.box0, last.ref)
                /\ last.log[1].done
                /\ last.res = last.log[1].outs
                /\ last.box1 = last.log[1].boxOut

\* C3's case: predicates [False, True, True] with all bodies present; the second
\* body ran.
C3_Witness ==
    /\ CondReturned
    /\ CondPreds(last.eqn, last.invals) = <<0, 1, 1>>
    /\ last.eqn.jaxpr_branches = <<"ValA", "ValB", "ValC">>
    /\ last.log[1].jaxpr = "ValB"
    /\ last.box1 # last.box0

CondIsNoOp ==
    /\ last.log = << >>
    /\ last.res = << >>
    /\ last.box1 = last.box0

\* C10 as claimed: when no predicate is true, or the body of the first true
\* predicate is absent, cond returns (), evaluates no body and leaves the Box
\* unchanged, whatever the later tuples are.
C10_AbsentMatchedBodyIsNoOp ==
    (CondReturned
       /\ (TruePreds(last.eqn, last.invals) = {}
           \/ last.eqn.jaxpr_branches[Least(TruePreds(last.eqn, last.invals))] = NoJaxpr))
      => CondIsNoOp

\* C10, amended: when no tuple has a true predicate and a present body, cond
\* returns (), evaluates no body and leaves the Box's state and key unchanged;
\* a tuple whose predicate is true and whose body is absent is skipped, and a
\* later tuple with a true predicate and a present body is evaluated.
C10_NoMatchIsNoOp ==
    CondReturned =>
        /\ Matches(last.eqn, last.invals) = {} => CondIsNoOp
        /\ Matches(last.eqn, last.invals) # {} => Len(last.log) = 1

\* C10's case: the first true predicate's body is absent and no tuple matches,
\* after an operation has changed the Box.
C10_Witness ==
    /\ CondReturned
    /\ TruePreds(last.eqn, last.invals) # {}
    /\ Matches(last.eqn, last.invals) = {}
    /\ \E k \in 1..Len(last.eqn.jaxpr_branches) : last.eqn.jaxpr_branches[k] # NoJaxpr
    /\ last.box0.state # GroundState

-----------------------------------------------------------------------------
(* Claims about the Box and the key *)

BoxRef == stack[1].stateref

\* C4 as claimed: no Box before the first program entry; during a top-level
\* invocation exactly one Box has been created, by the top-level frame's setup
\* with the ground state and the instance's initial key, and every frame refers
\* to it; when the invocation has completed the Box is detached, the state reads
\* None and the Box's last key is initial_key.
C4_BoxLifecycle ==
    /\ calls = 0 => (BoxRef = NoBox /\ heap = << >>)
    /\ Running =>
          /\ created = 1
          /\ BoxRef # NoBox
          /\ DOMAIN heap = {BoxRef}
          /\ \A k \in 1..Len(stack) : stack[k].stateref = BoxRef
    /\ (Running /\ Len(stack) = 1 /\ top.pc = 1) =>
          heap[BoxRef] = [state |-> GroundState, key |-> stack[1].initial_key]
    /\ (Idle /\ status = "ok") =>
          /\ BoxRef = NoBox
          /\ heap = << >>
          /\ State(stack[1], heap) = NoState
          /\ draws # << >> => stack[1].initial_key = draws[Len(draws)].key

\* The key the key property reads on the instance.
CurrentKey == Key(stack[1], heap)

\* C6: every measurement that samples splits the Box's key, stores one half as
\* the Box's key and hands the other to the sampler; the Box's key changes once
\* per such measurement and by nothing else; no key handed to a sampler is handed
\* out again or is the Box's key, within one top-level invocation.
C6_KeysNotReused ==
    LET n == Len(draws)
    IN /\ \A i \in 1..n :
             /\ {draws[i].key, draws[i].new_key} = Range(Split(draws[i].old))
             /\ draws[i].key # draws[i].new_key
             /\ draws[i].key # draws[i].old
             /\ draws[i].new_key # draws[i].old
             /\ draws[i].new_key # CurrentKey
       /\ \A i \in 1..n : \A j \in 1..n :
             /\ i # j => draws[i].new_key # draws[j].new_key
             /\ draws[i].new_key # draws[j].key
             /\ draws[i].new_key # draws[j].old
       /\ \A i \in 2..n : draws[i].old = draws[i - 1].key
       /\ n > 0 => CurrentKey = draws[n].key

\* C6's case: three measurements have sampled in one invocation, in two
\* iterations of a loop.
C6_Witness ==
    /\ Running
    /\ Len(draws) >= 3
    /\ \A i \in 1..3 : draws[i].by = "measure"
    /\ result.jaxpr = "NestProg"

\* C7: without shots, interpret_measurement leaves the Box's key and state as
\* they were before the call.
C7_AnalyticKeepsBox ==
    [][(AtEqn /\ eqn.kind = "mp" /\ shots = 0) => (heap' = heap /\ draws' = draws)]_vars

\* C7's case: two analytic terminal measurements have been made on a Box that
\* operations and mid-circuit measurements have changed.
C7_Witness ==
    /\ shots = 0
    /\ Len(stack) = 1
    /\ AtEnd
    /\ result.jaxpr = "WhileProg"
    /\ draws # << >>
    /\ heap[BoxRef].key = draws[Len(draws)].key

\* C5: two instances constructed with the same num_wires, shots and explicit key,
\* evaluating the same program on the same arguments, make the same key splits
\* with the same mid-circuit outcomes in the same order, and end with the same
\* outputs, the same key and the same end (returned or raised).
C5_Reproducible ==
    prev.set =>
        /\ Len(draws) <= Len(prev.draws)
        /\ \A i \in 1..Len(draws) : draws[i] = prev.draws[i]
        /\ (Idle /\ calls = 1) =>
              /\ status = prev.status
              /\ result.outs = prev.outs
              /\ draws = prev.draws
              /\ CurrentKey = prev.final_key
              /\ State(stack[1], heap) = prev.final_state

\* C5's case: the second instance has completed a run with mid-circuit
\* measurements and a sampled terminal measurement.
C5_Witness ==
    /\ prev.set
    /\ Idle
    /\ calls = 1
    /\ status = "ok"
    /\ shots # 0
    /\ Len(draws) >= 3

-----------------------------------------------------------------------------
(* Claims about errors *)

\* The top-level frame has just entered its program: setup has run and no
\* equation has been evaluated.
Entered == Running /\ Len(stack) = 1 /\ top.pc = 1

\* C11 as claimed: every top-level invocation starts from a Box that its own
\* setup has created, in the ground state, whether the invocation before it
\* returned or raised.
C11_NoBoxReuse ==
    Entered =>
        /\ created = 1
        /\ BoxRef = nextId - 1
        /\ heap[BoxRef].state = GroundState

\* The top frame is at an equation the interpreter does not support.
AtUnsupported ==
    /\ AtEqn
    /\ \/ eqn.kind \in {"adjoint", "ctrl"}
       \/ eqn.kind = "mp" /\ eqn.prim \in McmPrimitives

\* C12: the constructor raises NotImplementedError for partitioned shots and no
\* program is ever evaluated; an adjoint_transform or ctrl_transform equation
\* and a terminal measurement of mid-circuit measurements raise
\* NotImplementedError at once: the Box's state and key stay as the earlier
\* equations left them, no key is split, and every frame of the invocation is
\* gone, so that no later equation is evaluated.
C12_UnsupportedRejected ==
    /\ [](Len(ctor.shots) > 1 =>
            /\ status = "NotImplementedError"
            /\ calls = 0
            /\ Idle
            /\ heap = << >>)
    /\ [][AtUnsupported =>
            /\ status' = "NotImplementedError"
            /\ heap' = heap
            /\ draws' = draws
            /\ Idle'
            /\ calls' = calls
            /\ result' = result]_vars

\* C12's case: a ctrl_transform equation in the body of a for_loop has ended
\* the invocation, after operations had changed the Box.
C12_Witness ==
    /\ Idle
    /\ status = "NotImplementedError"
    /\ result.jaxpr = "CtrlProg"
    /\ BoxRef # NoBox
    /\ Len(heap[BoxRef].state) = 2

-----------------------------------------------------------------------------
(* Claims about frames *)

\* The top frame is at a control-flow equation, or is a child frame whose
\* sub-program has ended: the next step is the handler's.
AtHandler == (AtEqn /\ eqn.kind \in {"for", "while", "cond"}) \/ ChildDone

\* C14: during a top-level invocation every frame, the top-level one and every
\* child at any depth, refers to the same Box and there is no other Box; the
\* steps of the for_loop, while_loop and cond handlers (spawning a child,
\* taking its outputs, returning) leave the Box and the reference to it as
\* they are, so that what a child's last equation left is what the parent and
\* the next iteration or branch find.
C14_SharedBox ==
    /\ [](Running =>
            /\ BoxRef # NoBox
            /\ DOMAIN heap = {BoxRef}
            /\ \A k \in 1..Len(stack) :
                  /\ stack[k].stateref = BoxRef
                  /\ \A i \in 1..Len(stack[k].h.log) : stack[k].h.log[i].ref = BoxRef)
    /\ [][AtHandler =>
            /\ heap' = heap
            /\ stack'[1].stateref = stack[1].stateref
            /\ \A k \in 1..Len(stack') : stack'[k].stateref = stack[1].stateref]_vars

\* C14's case: three frames (a for_loop body and a cond branch in it) are live
\* on a Box that the branch's measurement has changed.
C14_Witness ==
    /\ Len(stack) = 3
    /\ top.jaxpr = "NestBranch"
    /\ AtEnd
    /\ Len(draws) >= 2
    /\ heap[BoxRef].key = draws[Len(draws)].key
    /\ draws[Len(draws)].old # stack[1].initial_key

\* The variables eval has bound in a frame: the sub-program's constants and
\* arguments and the outputs of the equations evaluated so far.
RECURSIVE OutvarsBefore(_, _)
OutvarsBefore(j, pc) ==
    IF pc <= 1 THEN {}
    ELSE Range(j.eqns[pc - 1].outvars) \cup OutvarsBefore(j, pc - 1)

Visible(f) ==
    Range(Jaxpr(f.jaxpr).constvars) \cup Range(Jaxpr(f.jaxpr).invars)
        \cup OutvarsBefore(Jaxpr(f.jaxpr), f.pc)

\* Frame k, which has completed the equation it was at, has its environment
\* of before plus the bindings of that equation's outputs.
OutputsBound(old, new) ==
    /\ new.pc = old.pc + 1
    /\ new.jaxpr = old.jaxpr
    /\ DOMAIN new.env = DOMAIN old.env \cup Range(EqnOf(old).outvars)
    /\ \A v \in DOMAIN old.env \ Range(EqnOf(old).outvars) : new.env[v] = old.env[v]

\* Frame child has just been spawned by the handler in frame par: it is at its
\* first equation and its environment holds the constants and arguments the
\* handler gave it, and nothing else.
NewChild(child, par) ==
    LET note == par.h.log[Len(par.h.log)]
        j == Jaxpr(child.jaxpr)
    IN /\ child.pc = 1
       /\ ~note.done
       /\ note.jaxpr = child.jaxpr
       /\ DOMAIN child.env = Range(j.constvars) \cup Range(j.invars)
       /\ ReadAll(child.env, j.constvars \o j.invars) = note.consts \o note.args

\* C15: the environment of every frame holds its own sub-program's constants,
\* arguments and the outputs of its own equations, nothing else; a child
\* frame starts with the constants and arguments it was given only; while
\* children run the environments of the frames below them do not change, and
\* when a handler returns its frame's environment is the one before the call
\* plus the bindings of the control-flow equation's outputs.
C15_EnvironmentIsolation ==
    /\ [](Running => \A k \in 1..Len(stack) : DOMAIN stack[k].env = Visible(stack[k]))
    /\ [][(Running /\ Running') =>
            /\ \A k \in 1..Min(Len(stack), Len(stack')) :
                  \/ stack'[k].env = stack[k].env /\ stack'[k].pc = stack[k].pc
                  \/ k = Len(stack') /\ OutputsBound(stack[k], stack'[k])
                  \/ k = Len(stack') /\ k > 1 /\ NewChild(stack'[k], stack'[k - 1])
            /\ Len(stack') > Len(stack) =>
                  NewChild(stack'[Len(stack')], stack'[Len(stack') - 1])]_vars

\* C15's case: the second iteration of a for_loop body starts; the first has
\* bound variables of its own, which neither the parent nor this frame holds.
C15_Witness ==
    /\ Len(stack) = 2
    /\ top.jaxpr = "ForBody"
    /\ top.pc = 1
    /\ Len(parent.h.log) = 2
    /\ parent.h.log[1].done
    /\ "m" \notin DOMAIN top.env
    /\ "m" \notin DOMAIN parent.env
    /\ "y" \notin DOMAIN parent.env

-----------------------------------------------------------------------------
(* Claims about terminal measurements and the writers of the Box *)

\* The top frame is at a terminal measurement that interpret_measurement takes.
AtMeasurement == AtEqn /\ eqn.kind = "mp" /\ eqn.prim \notin McmPrimitives

\* C16: whenever interpret_measurement exits, whether its computation (analytic
\* or with shots) returned or raised, capture is enabled; nothing else
\* disables it, so it is never left disabled after a terminal measurement.
C16_CaptureRestored ==
    /\ [][AtMeasurement => capture']_vars
    /\ [][capture => capture']_vars

\* C16's case: the sampler raised in a terminal measurement with shots, after
\* the key had been split; capture is enabled.
C16_Witness ==
    /\ Idle
    /\ status = "AttributeError"
    /\ shots # 0
    /\ Len(draws) = 2
    /\ capture

MpDraws == {i \in 1..Len(draws) : draws[i].by = "mp"}
MpEqnsDone(f) == {k \in 1..(f.pc - 1) : Jaxpr(f.jaxpr).eqns[k].kind = "mp"}

\* C17: with shots, every terminal measurement equation splits the Box's key,
\* stores the first half as the Box's key and calls the sampler once, for that
\* one measurement, with the configured shots and the second half; the Box's
\* state is unchanged; after n terminal measurements of a program the key has
\* been split n times for them and the n keys handed to the sampler differ.
C17_NotGrouped ==
    /\ [][(AtMeasurement /\ shots # 0) =>
            LET box == heap[BoxRef]
                new_key == Split(box.key)[2]
            IN /\ heap'[BoxRef] = [state |-> box.state, key |-> Split(box.key)[1]]
               /\ draws' = Append(draws, draws'[Len(draws')])
               /\ draws'[Len(draws')].by = "mp"
               /\ draws'[Len(draws')].old = box.key
               /\ draws'[Len(draws')].new_key = new_key
               /\ (Running' =>
                     stack'[Len(stack')].env[eqn.outvars[1]]
                        = [mp |-> eqn.prim, of |-> box.state, shots |-> shots,
                           prng_key |-> new_key])]_vars
    /\ []((Running /\ shots # 0) =>
            /\ Cardinality(MpDraws) = Cardinality(MpEqnsDone(stack[1]))
            /\ \A i \in MpDraws : \A j \in MpDraws :
                  i # j => draws[i].new_key # draws[j].new_key)

\* C17's case: a program's two terminal measurements have been made with shots.
C17_Witness ==
    /\ Len(stack) = 1
    /\ AtEnd
    /\ shots # 0
    /\ result.jaxpr = "WhileProg"
    /\ Cardinality(MpDraws) = 2
    /\ stack[1].env["e"].prng_key # stack[1].env["f"].prng_key

\* The Box's key is not the same after the step as before it.
KeyChanges == heap'[BoxRef].key # heap[BoxRef].key

\* C18: a plain operation replaces the Box's state and leaves its key; the
\* steps of the for_loop, while_loop and cond handlers write neither; the key
\* changes in exactly the steps that execute a mid-circuit measurement or a
\* terminal measurement with shots, once in each, so that the number of its
\* changes over an invocation is the number of those equations executed.
C18_WritersOfTheBox ==
    /\ [][(AtEqn /\ eqn.kind = "op") =>
            /\ heap'[BoxRef].key = heap[BoxRef].key
            /\ heap'[BoxRef].state =
                  Append(heap[BoxRef].state, [prim |-> eqn.prim, args |-> invals])
            /\ draws' = draws]_vars
    /\ [][AtHandler => (heap' = heap /\ draws' = draws)]_vars
    /\ [][AtEqn =>
            /\ KeyChanges <=> (eqn.kind = "measure" \/ (AtMeasurement /\ shots # 0))
            /\ KeyChanges <=> (Len(draws') = Len(draws) + 1)
            /\ (~KeyChanges) => (draws' = draws)]_vars
    /\ []((Running /\ draws # << >>) =>
            Len(heap[BoxRef].key) = Len(draws[1].old) + Len(draws))

\* C18's case: an invocation with shots has executed operations, mid-circuit
\* measurements in a loop and terminal measurements.
C18_Witness ==
    /\ Len(stack) = 1
    /\ AtEnd
    /\ shots # 0
    /\ \E i \in 1..Len(draws) : draws[i].by = "measure"
    /\ MpDraws # {}
    /\ Len(heap[BoxRef].state) >= 2
    /\ last.eqn.kind = "while"

\* The caller has used a property of the instance while it had no Box.
AccessedWithoutBox == access.op # "none" /\ access.nobox

\* C13 as claimed: every read and every write of state or key while no Box
\* exists raises, and neither returns nor stores a value.
C13_AccessWithoutBoxRaises ==
    AccessedWithoutBox =>
        /\ access.raised # "none"
        /\ ~access.stored
        /\ access.state = << >>
        /\ access.key = << >>

\* C13, amended: while no Box exists a write of state or key raises
\* AttributeError and stores nothing; a read raises nothing: state reads None
\* and key reads initial_key.
C13_WriteWithoutBoxRaises ==
    AccessedWithoutBox =>
        /\ access.op \in {"set_state", "set_key"} =>
              /\ access.raised = "AttributeError"
              /\ ~access.stored
              /\ heap = << >>
              /\ BoxRef = NoBox
        /\ access.op = "get_state" =>
              (access.raised = "none" /\ access.state = NoState)
        /\ access.op = "get_key" =>
              (access.raised = "none" /\ access.key = stack[1].initial_key)

\* C13's case: state has been written after an invocation returned and its
\* cleanup detached the Box.
C13_Witness ==
    /\ AccessedWithoutBox
    /\ access.op = "set_state"
    /\ status = "ok"
    /\ calls > 0

-----------------------------------------------------------------------------
(* Claims about map_wires *)

\* C19 as claimed: while a queue is recording the mapped operator is appended
\* to the queue if and only if queue=True, and the input is removed from the
\* queue only when queue=True and replace=True; with queue=False and
\* replace=False, and whenever no queue is recording, the queue is unchanged;
\* in every case the input operator is unmodified and a mapped copy, another
\* object, is returned.
C19_MapWiresQueueEffect ==
    qm.call.done =>
        LET c == qm.call
            wasQueued == c.input \in Range(c.before)
            isQueued == c.input \in Range(c.after)
        IN /\ c.recording =>
                 /\ c.queue <=> (c.new_op \in Range(c.after))
                 /\ c.queue => c.after[Len(c.after)] = c.new_op
                 /\ (wasQueued /\ ~isQueued) => (c.queue /\ c.replace)
                 /\ (c.queue /\ c.replace) => ~isQueued
                 /\ (~c.queue /\ ~c.replace) => c.after = c.before
           /\ ~c.recording => c.after = c.before
           /\ c.new_op # c.input
           /\ c.new_op \notin Range(c.before)
           /\ qm.objs[c.input] = c.objs[c.input]
           /\ qm.objs[c.new_op].wires = MappedWires(c.objs[c.input].wires, c.wire_map)

=============================================================================
